---- MODULE Spec2Model ----
(***************************************************************************)
(* Model of decarbonization_analyzer.py: the Text Matcher                  *)
(* (result_matches_org, url_belongs_to_org), the Search Client             *)
(* (search_organization), the Goal Extractor (analyze_search_results) and  *)
(* the Pipeline Driver (analyze_decarbonization_goals).                    *)
(*                                                                         *)
(* Python strings are sequences of one-character strings, so that lower(), *)
(* split(), strip(), slicing, substring tests, the year regex and the      *)
(* hostname of a URL are computed, not assumed.  A JSON value (a field of  *)
(* a provider's response) is a tagged record: absent from its object,      *)
(* null, or a string.                                                      *)
(***************************************************************************)
EXTENDS Integers, Sequences, FiniteSets, TLC

VARIABLES
    brave_api_key,      \* TRUE iff os.getenv("BRAVE_API_KEY") is non-empty
    anthropic_api_key,  \* TRUE iff os.getenv("ANTHROPIC_API_KEY") is non-empty
    org_list,           \* the driver's input list of organization names
    idx,                \* position of the driver's for loop in org_list
    pc,                 \* the statement the program is at
    response,           \* search_organization: the last response received
    first_status,       \* status of the first search response, 0 if none
    search_results,     \* what search_organization returned / was passed on
    reply,              \* analyze_search_results: the inference outcome
    parsed_response,    \* analyze_search_results: the structured answer
    analysis,           \* the record analyze_search_results returned
    results,            \* the driver's collected records
    requests_sent,      \* requests.get calls of the current search invocation
    retry_slept,        \* time slept waiting to retry in this search invocation
    inference_sent,     \* requests.post calls of the current analyze invocation
    paced_since_search, \* time slept in pacing sleeps since the last search request
    last_request,       \* the last request sent: its kind and organization
    error               \* where an uncaught exception ended the run, or "none"

vars ==
    <<brave_api_key, anthropic_api_key, org_list, idx, pc, response,
      first_status, search_results, reply, parsed_response, analysis,
      results, requests_sent, retry_slept, inference_sent, paced_since_search,
      last_request, error>>

(***************************************************************************)
(* Bounds of the model.                                                    *)
(***************************************************************************)
MaxOrgs == 2

MaxResults == 2

(***************************************************************************)
(* Constants of the program.                                               *)
(***************************************************************************)
StatusOK == 200

StatusRateLimited == 429

RetryWait == 5

PacingWait == 1

DescriptionLimit == 250

(***************************************************************************)
(* Strings.                                                                *)
(***************************************************************************)
OrgAcme ==
    <<"A", "c", "m", "e", " ", "C", "o", "r", "p">>

OrgStopwords ==
    <<"T", "h", "e", " ", "C", "o", "m", "p", "a", "n", "y", " ", "o", "f">>

OrgVeolia ==
    <<"V", "e", "o", "l", "i", "a", " ", "E", "n", "e", "r", "g", "y", " ",
    "N", "A", " ", "-", " ", "P", "h", "i", "l", "a", "d", "e", "l", "p",
    "h", "i", "a">>

TitleAcme ==
    <<"A", "c", "m", "e", " ", "d", "e", "c", "a", "r", "b", "o", "n", "i",
    "z", "a", "t", "i", "o", "n">>

TitleNews ==
    <<"D", "a", "i", "l", "y", " ", "n", "e", "w", "s">>

DescAcme2035 ==
    <<"A", "c", "m", "e", " ", "t", "a", "r", "g", "e", "t", "s", " ", "n",
    "e", "t", " ", "z", "e", "r", "o", " ", "b", "y", " ", "2", "0", "3",
    "5">>

DescAcmeTwoYears ==
    <<"A", "C", "M", "E", " ", "p", "l", "a", "n", " ", "2", "0", "3", "5",
    "5", " ", "t", "h", "e", "n", " ", "2", "0", "4", "0", " ", "a", "n",
    "d", " ", "2", "0", "5", "0">>

DescVeolia ==
    <<" ", " ", "V", "e", "o", "l", "i", "a", " ", "D", "e", "c", "a", "r",
    "b", "o", "n", "i", "z", "a", "t", "i", "o", "n", " ", "r", "o", "a",
    "d", "m", "a", "p", " ", "2", "0", "3", "0">>

DescNews ==
    <<"N", "e", "t", " ", "Z", "e", "r", "o", " ", "p", "l", "e", "d", "g",
    "e", "s", " ", "i", "n", " ", "2", "0", "4", "5">>

UrlAcmePress ==
    <<"h", "t", "t", "p", "s", ":", "/", "/", "a", "c", "m", "e", ".", "c",
    "o", "m", "/", "p", "r", "e", "s", "s">>

UrlAcmeUpper ==
    <<"H", "T", "T", "P", "S", ":", "/", "/", "u", "s", "e", "r", "@", "W",
    "W", "W", ".", "A", "C", "M", "E", ".", "C", "O", "M", ":", "8", "0",
    "8", "0", "/", "a">>

UrlNews ==
    <<"h", "t", "t", "p", "s", ":", "/", "/", "n", "e", "w", "s", ".", "o",
    "r", "g", "/", "a", "c", "m", "e">>

UrlVeolia ==
    <<"h", "t", "t", "p", "s", ":", "/", "/", "w", "w", "w", ".", "v", "e",
    "o", "l", "i", "a", ".", "c", "o", "m", "/", "e", "n">>

UrlBadBracket ==
    <<"h", "t", "t", "p", ":", "/", "/", "[", "a", "c", "m", "e">>

UrlModel ==
    <<"h", "t", "t", "p", "s", ":", "/", "/", "e", "x", "a", "m", "p", "l",
    "e", ".", "o", "r", "g", "/", "g", "o", "a", "l">>

KwDecarbon ==
    <<"d", "e", "c", "a", "r", "b", "o", "n">>

KwNetZero ==
    <<"n", "e", "t", " ", "z", "e", "r", "o">>

StrYes ==
    <<"Y", "e", "s">>

StrYesLower ==
    <<"y", "e", "s">>

StrNotFound ==
    <<"N", "o", "t", " ", "F", "o", "u", "n", "d">>

Str2035 ==
    <<"2", "0", "3", "5">>

Str2030 ==
    <<"2", "0", "3", "0">>

DescModel ==
    <<"M", "o", "d", "e", "l", " ", "s", "u", "m", "m", "a", "r", "y">>

TailNetZero ==
    <<" ", "a", "c", "m", "e", " ", "n", "e", "t", " ", "z", "e", "r", "o">>

UpperToLower ==
    [A |-> "a", B |-> "b", C |-> "c", D |-> "d", E |-> "e", F |-> "f",
     G |-> "g", H |-> "h", I |-> "i", J |-> "j", K |-> "k", L |-> "l",
     M |-> "m", N |-> "n", O |-> "o", P |-> "p", Q |-> "q", R |-> "r",
     S |-> "s", T |-> "t", U |-> "u", V |-> "v", W |-> "w", X |-> "x",
     Y |-> "y", Z |-> "z"]

LowerLetters ==
    {UpperToLower[c] : c \in DOMAIN UpperToLower}

Digits ==
    {"0", "1", "2", "3", "4", "5", "6", "7", "8", "9"}

Whitespace ==
    {" ", "\n", "\t"}

\* \w of the re module
WordChars ==
    DOMAIN UpperToLower \cup LowerLetters \cup Digits \cup {"_"}

\* str.lower()
Lower(s) ==
    [i \in 1..Len(s) |->
        IF s[i] \in DOMAIN UpperToLower THEN UpperToLower[s[i]] ELSE s[i]]

\* needle in hay
Contains(hay, needle) ==
    \E i \in 0..(Len(hay) - Len(needle)) :
        \A j \in 1..Len(needle) : hay[i + j] = needle[j]

\* position of the first character of s at or after i that is in chars,
\* Len(s) + 1 if there is none
RECURSIVE FindFrom(_, _, _)
FindFrom(s, chars, i) ==
    IF i > Len(s) THEN Len(s) + 1
    ELSE IF s[i] \in chars THEN i
    ELSE FindFrom(s, chars, i + 1)

\* position of the first character of s at or after i that is not in chars
RECURSIVE SkipFrom(_, _, _)
SkipFrom(s, chars, i) ==
    IF i > Len(s) THEN Len(s) + 1
    ELSE IF s[i] \notin chars THEN i
    ELSE SkipFrom(s, chars, i + 1)

\* str.split(): the maximal runs of non-whitespace characters
RECURSIVE SplitFrom(_, _)
SplitFrom(s, i) ==
    LET b == SkipFrom(s, Whitespace, i)
        e == FindFrom(s, Whitespace, b)
    IN  IF b > Len(s) THEN <<>>
        ELSE <<SubSeq(s, b, e - 1)>> \o SplitFrom(s, e)

Split(s) ==
    SplitFrom(s, 1)

\* position of the last character of s at or before i that is not whitespace
RECURSIVE LastNonSpace(_, _)
LastNonSpace(s, i) ==
    IF i < 1 THEN 0
    ELSE IF s[i] \notin Whitespace THEN i
    ELSE LastNonSpace(s, i - 1)

\* str.strip()
Strip(s) ==
    SubSeq(s, SkipFrom(s, Whitespace, 1), LastNonSpace(s, Len(s)))

\* s[:n]
Truncate(s, n) ==
    SubSeq(s, 1, IF Len(s) < n THEN Len(s) ELSE n)

\* n copies of the character c
Repeat(c, n) ==
    [i \in 1..n |-> c]

(***************************************************************************)
(* JSON values and dict.get.                                               *)
(***************************************************************************)
JAbsent ==
    [k |-> "absent", s |-> <<>>]

JNull ==
    [k |-> "null", s |-> <<>>]

JStr(s) ==
    [k |-> "str", s |-> s]

\* d.get(key, default) where v is the value of key in d
Get(v, default) ==
    IF v.k = "absent" THEN default ELSE v

\* d.get(key): None when the key is missing
GetOrNone(v) ==
    Get(v, JNull)

\* bool(v) for the values of the model: None and "" are falsy
Truthy(v) ==
    v.k = "str" /\ v.s # <<>>

(***************************************************************************)
(* urllib.parse.urlparse(url).hostname                                     *)
(***************************************************************************)
SchemeChars ==
    DOMAIN UpperToLower \cup LowerLetters \cup Digits \cup {"+", "-", "."}

\* the url with its "scheme:" prefix removed, if it has one
AfterScheme(url) ==
    LET c == FindFrom(url, {":"}, 1)
    IN  IF /\ c > 1
           /\ c <= Len(url)
           /\ url[1] \in DOMAIN UpperToLower \cup LowerLetters
           /\ \A i \in 1..(c - 1) : url[i] \in SchemeChars
        THEN SubSeq(url, c + 1, Len(url))
        ELSE url

\* the network location: what follows "//" up to the first of / ? #
Netloc(url) ==
    LET rest == AfterScheme(url)
    IN  IF Len(rest) >= 2 /\ rest[1] = "/" /\ rest[2] = "/"
        THEN SubSeq(rest, 3, FindFrom(rest, {"/", "?", "#"}, 3) - 1)
        ELSE <<>>

\* urlparse raises ValueError("Invalid IPv6 URL") on an unmatched bracket
UrlParseRaises(url) ==
    LET n == Netloc(url)
    IN  (Contains(n, <<"[">>) /\ ~Contains(n, <<"]">>))
        \/ (Contains(n, <<"]">>) /\ ~Contains(n, <<"[">>))

\* position of the last "@" of s, 0 if there is none
RECURSIVE LastAt(_, _)
LastAt(s, i) ==
    IF i < 1 THEN 0
    ELSE IF s[i] = "@" THEN i
    ELSE LastAt(s, i - 1)

\* parsed.hostname or "": lower-cased, without userinfo and port
Hostname(url) ==
    LET n == Netloc(url)
        hostinfo == SubSeq(n, LastAt(n, Len(n)) + 1, Len(n))
        open == FindFrom(hostinfo, {"["}, 1)
        host ==
            IF open <= Len(hostinfo)
            THEN SubSeq(hostinfo, open + 1,
                        FindFrom(hostinfo, {"]"}, open + 1) - 1)
            ELSE SubSeq(hostinfo, 1, FindFrom(hostinfo, {":"}, 1) - 1)
    IN  Lower(host)

(***************************************************************************)
(* Text Matcher.                                                           *)
(***************************************************************************)
common_words ==
    {<<"t", "h", "e">>, <<"o", "f">>, <<"a", "n", "d">>,
     <<"c", "o", "m", "p", "a", "n", "y">>, <<"i", "n", "c">>,
     <<"c", "o">>, <<"-">>}

\* the lower-cased whitespace-separated tokens of the name, stopwords removed
org_tokens(org_name) ==
    LET all == Split(Lower(org_name))
    IN  {all[i] : i \in {j \in 1..Len(all) : all[j] \notin common_words}}

\* result_matches_org raises AttributeError: None has no lower()
result_matches_org_raises(result) ==
    \/ Get(result.title, JStr(<<>>)).k = "null"
    \/ Get(result.description, JStr(<<>>)).k = "null"

result_matches_org(org_name, result) ==
    LET title == Lower(Get(result.title, JStr(<<>>)).s)
        desc == Lower(Get(result.description, JStr(<<>>)).s)
    IN  \E token \in org_tokens(org_name) :
            Contains(title, token) \/ Contains(desc, token)

\* url is the string passed; for None the caller passes the empty string,
\* since urlparse(None).hostname is None just as urlparse("").hostname is
url_belongs_to_org(org_name, url) ==
    \E token \in org_tokens(org_name) : Contains(Hostname(url), token)

(***************************************************************************)
(* The year pattern of the target_date fallback: \b(20\d{2})\b             *)
(***************************************************************************)
YearAt(desc, i) ==
    /\ i + 3 <= Len(desc)
    /\ desc[i] = "2"
    /\ desc[i + 1] = "0"
    /\ desc[i + 2] \in Digits
    /\ desc[i + 3] \in Digits
    /\ (i = 1 \/ desc[i - 1] \notin WordChars)
    /\ (i + 3 = Len(desc) \/ desc[i + 4] \notin WordChars)

HasYear(desc) ==
    \E i \in 1..Len(desc) : YearAt(desc, i)

\* re.search(...).group(1): the leftmost match
FirstYear(desc) ==
    LET i == CHOOSE j \in 1..Len(desc) :
                 YearAt(desc, j) /\ \A m \in 1..(j - 1) : ~YearAt(desc, m)
    IN  SubSeq(desc, i, i + 3)

(***************************************************************************)
(* Search results and the search provider's responses.                     *)
(***************************************************************************)
SearchResult(title, description, url) ==
    [title |-> title, description |-> description, url |-> url]

\* the value search_organization returns: a list, None, or another JSON
\* value that is truthy and not a list (a string, a number, an object)
ResultList(rs) ==
    [k |-> "list", v |-> rs]

ResultNone ==
    [k |-> "null", v |-> <<>>]

ResultScalar ==
    [k |-> "scalar", v |-> <<>>]

\* bool(search_results)
ResultsTruthy(sr) ==
    sr.k = "scalar" \/ (sr.k = "list" /\ sr.v # <<>>)

Body(shape, rs) ==
    [shape |-> shape, results |-> rs]

NoBody ==
    Body("none", <<>>)

NoResponse ==
    [status |-> 0, body |-> NoBody]

\* response.json() and json_data.get("web", {}).get("results", []), with the
\* inner except: the value left in results
SearchParse(body) ==
    CASE body.shape = "not_json" -> ResultList(<<>>)
      [] body.shape = "not_dict" -> ResultList(<<>>)
      [] body.shape = "web_null" -> ResultList(<<>>)
      [] body.shape = "no_web" -> ResultList(<<>>)
      [] body.shape = "no_results" -> ResultList(<<>>)
      [] body.shape = "results_null" -> ResultNone
      [] body.shape = "results_scalar" -> ResultScalar
      [] body.shape = "results_list" -> ResultList(body.results)

\* lines 83-93: what search_organization makes of the final response
SearchOutcome(resp) ==
    IF resp.status = StatusOK THEN SearchParse(resp.body)
    ELSE ResultList(<<>>)

(***************************************************************************)
(* The inference provider's responses and the extraction of the answer.    *)
(***************************************************************************)
Answer(has_goal, target_date, source_url, description) ==
    [has_goal |-> has_goal, target_date |-> target_date,
     source_url |-> source_url, description |-> description]

EmptyAnswer ==
    Answer(JAbsent, JAbsent, JAbsent, JAbsent)

\* A response text is a sequence of segments: prose without braces, a JSON
\* object literal, or a lone brace.
Prose ==
    [seg |-> "prose", obj |-> EmptyAnswer]

Obj(answer) ==
    [seg |-> "obj", obj |-> answer]

OpenBrace ==
    [seg |-> "open", obj |-> EmptyAnswer]

CloseBrace ==
    [seg |-> "close", obj |-> EmptyAnswer]

\* "\n".join(texts)
RECURSIVE JoinBlocks(_)
JoinBlocks(texts) ==
    IF texts = <<>> THEN <<>>
    ELSE IF Len(texts) = 1 THEN texts[1]
    ELSE texts[1] \o <<Prose>> \o JoinBlocks(Tail(texts))

\* re.search(r'({.*})', text, re.DOTALL) and json.loads of the span: the
\* span runs from the first "{" to the last "}" and parses only when it is
\* one object literal
ExtractAnswer(text) ==
    LET opens == {i \in 1..Len(text) : text[i].seg \in {"obj", "open"}}
        closes == {i \in 1..Len(text) : text[i].seg \in {"obj", "close"}}
        starts == {i \in opens : \E j \in closes : j >= i}
    IN  IF starts = {} THEN EmptyAnswer
        ELSE LET f == CHOOSE i \in starts : \A j \in starts : i <= j
                 l == CHOOSE i \in closes : \A j \in closes : j <= i
             IN  IF f = l THEN text[f].obj ELSE EmptyAnswer

InferenceBody(shape, texts) ==
    [shape |-> shape, texts |-> texts]

\* lines 155-178 and the except of line 183: the parsed_response of a body
ParseInference(body) ==
    CASE body.shape = "not_json" -> EmptyAnswer
      [] body.shape = "neither" -> ExtractAnswer(<<>>)
      [] body.shape = "completion" -> ExtractAnswer(body.texts[1])
      [] body.shape = "content_str" -> ExtractAnswer(body.texts[1])
      [] body.shape = "content_list" -> ExtractAnswer(JoinBlocks(body.texts))
      [] body.shape = "content_other" -> EmptyAnswer

InferenceReply(kind, status, body) ==
    [kind |-> kind, status |-> status, body |-> body]

\* lines 151-185: the parsed_response an inference outcome leaves
InferenceOutcome(rep) ==
    IF rep.kind = "exception" THEN EmptyAnswer
    ELSE IF rep.status = StatusOK THEN ParseInference(rep.body)
    ELSE EmptyAnswer

(***************************************************************************)
(* The three fallbacks.  Each scans the results in list order and either   *)
(* raises, stores a value or leaves the field alone.                       *)
(***************************************************************************)
Raised ==
    [out |-> "raised", val |-> <<>>]

NotFound ==
    [out |-> "none", val |-> <<>>]

Found(val) ==
    [out |-> "found", val |-> val]

\* mutant of SourceUrlScan: the hostname is not checked
RECURSIVE SourceUrlScanTextOnly(_, _, _)
SourceUrlScanTextOnly(org_name, rs, i) ==
    IF i > Len(rs) THEN NotFound
    ELSE LET r == rs[i]
             url == Get(r.url, JStr(<<>>))
         IN  IF ~Truthy(url) THEN SourceUrlScanTextOnly(org_name, rs, i + 1)
             ELSE IF result_matches_org_raises(r) THEN Raised
             ELSE IF ~result_matches_org(org_name, r)
                  THEN SourceUrlScanTextOnly(org_name, rs, i + 1)
             ELSE IF UrlParseRaises(url.s) THEN Raised
             ELSE Found(url.s)

\* lines 189-193
RECURSIVE SourceUrlScan(_, _, _)
SourceUrlScan(org_name, rs, i) ==
    IF i > Len(rs) THEN NotFound
    ELSE LET r == rs[i]
             url == Get(r.url, JStr(<<>>))
         IN  IF ~Truthy(url) THEN SourceUrlScan(org_name, rs, i + 1)
             ELSE IF result_matches_org_raises(r) THEN Raised
             ELSE IF ~result_matches_org(org_name, r)
                  THEN SourceUrlScan(org_name, rs, i + 1)
             ELSE IF UrlParseRaises(url.s) THEN Raised
             ELSE IF url_belongs_to_org(org_name, url.s) THEN Found(url.s)
             ELSE SourceUrlScan(org_name, rs, i + 1)

\* mutant of TargetDateScan: the hostname is not checked
RECURSIVE TargetDateScanTextOnly(_, _, _)
TargetDateScanTextOnly(org_name, rs, i) ==
    IF i > Len(rs) THEN NotFound
    ELSE LET r == rs[i]
             url == Get(r.url, JStr(<<>>))
             desc == Get(r.description, JStr(<<>>))
         IN  IF result_matches_org_raises(r) THEN Raised
             ELSE IF ~result_matches_org(org_name, r)
                  THEN TargetDateScanTextOnly(org_name, rs, i + 1)
             ELSE IF UrlParseRaises(url.s) THEN Raised
             ELSE IF HasYear(desc.s) THEN Found(FirstYear(desc.s))
             ELSE TargetDateScanTextOnly(org_name, rs, i + 1)

\* lines 197-203
RECURSIVE TargetDateScan(_, _, _)
TargetDateScan(org_name, rs, i) ==
    IF i > Len(rs) THEN NotFound
    ELSE LET r == rs[i]
             url == Get(r.url, JStr(<<>>))
             desc == Get(r.description, JStr(<<>>))
         IN  IF result_matches_org_raises(r) THEN Raised
             ELSE IF ~result_matches_org(org_name, r)
                  THEN TargetDateScan(org_name, rs, i + 1)
             ELSE IF UrlParseRaises(url.s) THEN Raised
             ELSE IF /\ url_belongs_to_org(org_name, url.s)
                     /\ HasYear(desc.s)
                  THEN Found(FirstYear(desc.s))
             ELSE TargetDateScan(org_name, rs, i + 1)

\* mutant of DescriptionScan: the goal keywords are not required
RECURSIVE DescriptionScanAnyText(_, _, _)
DescriptionScanAnyText(org_name, rs, i) ==
    IF i > Len(rs) THEN NotFound
    ELSE LET r == rs[i]
             url == Get(r.url, JStr(<<>>))
             desc == Get(r.description, JStr(<<>>))
         IN  IF desc.k = "null" THEN Raised
             ELSE IF result_matches_org_raises(r) THEN Raised
             ELSE IF ~result_matches_org(org_name, r)
                  THEN DescriptionScanAnyText(org_name, rs, i + 1)
             ELSE IF UrlParseRaises(url.s) THEN Raised
             ELSE IF url_belongs_to_org(org_name, url.s)
                  THEN Found(Truncate(Strip(desc.s), DescriptionLimit))
             ELSE DescriptionScanAnyText(org_name, rs, i + 1)

\* lines 207-212
RECURSIVE DescriptionScan(_, _, _)
DescriptionScan(org_name, rs, i) ==
    IF i > Len(rs) THEN NotFound
    ELSE LET r == rs[i]
             url == Get(r.url, JStr(<<>>))
             desc == Get(r.description, JStr(<<>>))
         IN  IF desc.k = "null" THEN Raised
             ELSE IF ~(\/ Contains(Lower(desc.s), KwDecarbon)
                       \/ Contains(Lower(desc.s), KwNetZero))
                  THEN DescriptionScan(org_name, rs, i + 1)
             ELSE IF result_matches_org_raises(r) THEN Raised
             ELSE IF ~result_matches_org(org_name, r)
                  THEN DescriptionScan(org_name, rs, i + 1)
             ELSE IF UrlParseRaises(url.s) THEN Raised
             ELSE IF url_belongs_to_org(org_name, url.s)
                  THEN Found(Truncate(Strip(desc.s), DescriptionLimit))
             ELSE DescriptionScan(org_name, rs, i + 1)

\* lines 110-116
NotFoundRecord(org_name) ==
    [organization |-> org_name, has_goal |-> JStr(StrNotFound),
     target_date |-> JNull, source_url |-> JNull,
     description |-> JStr(<<>>)]

\* lines 214-220
BuildRecord(org_name, parsed) ==
    [organization |-> org_name,
     has_goal |-> Get(parsed.has_goal, JStr(StrNotFound)),
     target_date |-> GetOrNone(parsed.target_date),
     source_url |-> GetOrNone(parsed.source_url),
     description |-> Get(parsed.description, JStr(<<>>))]

NoRecord ==
    [organization |-> <<>>, has_goal |-> JAbsent, target_date |-> JAbsent,
     source_url |-> JAbsent, description |-> JAbsent]

(***************************************************************************)
(* The inputs the model draws from.                                        *)
(***************************************************************************)
\* the published example: official page, net zero by 2035
ResAcmePress ==
    SearchResult(JStr(TitleAcme), JStr(DescAcme2035), JStr(UrlAcmePress))

\* a result whose description is null
ResAcmeNullDesc ==
    SearchResult(JStr(TitleAcme), JNull, JStr(UrlAcmePress))

\* third-party coverage: neither text nor hostname names the organization
ResNews ==
    SearchResult(JStr(TitleNews), JStr(DescNews), JStr(UrlNews))

\* the text names the organization, the hostname does not
ResAcmeThirdParty ==
    SearchResult(JStr(TitleAcme), JStr(DescAcme2035), JStr(UrlNews))

\* official page, several year-like tokens, no goal keyword
ResAcmeTwoYears ==
    SearchResult(JStr(TitleNews), JStr(DescAcmeTwoYears), JStr(UrlAcmeUpper))

\* official page whose goal keyword lies beyond the first 250 characters
ResAcmeLong ==
    SearchResult(JStr(TitleAcme),
                 JStr(Repeat("x", DescriptionLimit) \o TailNetZero),
                 JStr(UrlAcmePress))

\* official page without a title, description with leading whitespace
ResVeolia ==
    SearchResult(JAbsent, JStr(DescVeolia), JStr(UrlVeolia))

\* a URL that urlparse rejects
ResAcmeBadUrl ==
    SearchResult(JStr(TitleAcme), JStr(DescAcme2035), JStr(UrlBadBracket))

\* the results the fallback stage is checked on
Catalogue ==
    {ResAcmePress, ResAcmeNullDesc, ResNews, ResAcmeThirdParty,
     ResAcmeTwoYears, ResAcmeLong, ResVeolia}

OrgNames ==
    {OrgAcme, OrgStopwords, OrgVeolia}

\* the sequences over S of length lo..hi
SeqsOf(S, lo, hi) ==
    UNION {[1..n -> S] : n \in lo..hi}

\* the answers the fallback stage is checked on: every combination of the
\* three fields that have a fallback, and has_goal missing, null or given
AnswerSpace ==
    {Answer(JAbsent, t, u, d) :
        t \in {JAbsent, JStr(Str2030)},
        u \in {JAbsent, JStr(<<>>), JStr(UrlModel)},
        d \in {JAbsent, JStr(DescModel)}}
    \cup {Answer(g, JAbsent, JAbsent, JAbsent) : g \in {JNull, JStr(StrYes)}}
    \cup {Answer(g, JStr(Str2030), JStr(UrlModel), JStr(DescModel)) :
             g \in {JNull, JStr(StrYes)}}

\* the organizations and provider behaviours of a whole run
DriverOrgs ==
    {OrgAcme, OrgStopwords}

SearchBodies ==
    {Body("not_json", <<>>), Body("web_null", <<>>),
     Body("results_null", <<>>), Body("results_scalar", <<>>),
     Body("results_list", <<>>),
     Body("results_list", <<ResAcmePress>>),
     Body("results_list", <<ResAcmeNullDesc>>),
     Body("results_list", <<ResAcmeBadUrl>>),
     Body("results_list", <<ResNews, ResAcmePress>>)}

\* the statuses other than 200 and 429 that a provider answers with
ErrorStatuses ==
    {500}

SearchResponses ==
    {[status |-> StatusOK, body |-> b] : b \in SearchBodies}
    \cup {[status |-> st, body |-> NoBody] :
             st \in {StatusRateLimited} \cup ErrorStatuses}

FullAnswer ==
    Answer(JStr(StrYes), JStr(Str2030), JStr(UrlModel), JStr(DescModel))

\* an answer lacking target_date, source_url and description
PartialAnswer ==
    Answer(JStr(StrYesLower), JAbsent, JAbsent, JAbsent)

NullGoalAnswer ==
    Answer(JNull, JAbsent, JStr(<<>>), JAbsent)

NoInferenceBody ==
    InferenceBody("none", <<>>)

NoReply ==
    InferenceReply("none", 0, NoInferenceBody)

InferenceReplies ==
    {InferenceReply("exception", 0, NoInferenceBody),
     InferenceReply("response", StatusOK, InferenceBody("not_json", <<>>)),
     InferenceReply("response", StatusOK,
                    InferenceBody("completion", <<<<Prose, Obj(FullAnswer)>>>>)),
     InferenceReply("response", StatusOK,
                    InferenceBody("content_list",
                                  <<<<CloseBrace>>, <<Obj(PartialAnswer), Prose>>>>)),
     InferenceReply("response", StatusOK,
                    InferenceBody("content_str", <<<<Obj(NullGoalAnswer)>>>>)),
     InferenceReply("response", StatusOK,
                    InferenceBody("content_list",
                                  <<<<Obj(FullAnswer)>>, <<Obj(PartialAnswer)>>>>)),
     InferenceReply("response", StatusOK,
                    InferenceBody("completion", <<<<OpenBrace, Prose>>>>))}
    \cup {InferenceReply("response", st, NoInferenceBody) :
             st \in {StatusRateLimited} \cup ErrorStatuses}

(***************************************************************************)
(* Pipeline Driver: analyze_decarbonization_goals.                         *)
(***************************************************************************)
NoRequest ==
    [kind |-> "none", org |-> 0]

Init ==
    /\ brave_api_key \in BOOLEAN
    /\ anthropic_api_key \in BOOLEAN
    /\ org_list \in SeqsOf(DriverOrgs, 0, MaxOrgs)
    /\ idx = 1
    /\ pc = "start"
    /\ response = NoResponse
    /\ first_status = 0
    /\ search_results = ResultList(<<>>)
    /\ reply = NoReply
    /\ parsed_response = EmptyAnswer
    /\ analysis = NoRecord
    /\ results = <<>>
    /\ requests_sent = 0
    /\ retry_slept = 0
    /\ inference_sent = 0
    /\ paced_since_search = 0
    /\ last_request = NoRequest
    /\ error = "none"

\* lines 230-248: the credential check
CheckKeys ==
    /\ pc = "start"
    /\ pc' = IF brave_api_key /\ anthropic_api_key THEN "loop" ELSE "done"
    /\ UNCHANGED <<brave_api_key, anthropic_api_key, org_list, idx, response,
                   first_status, search_results, reply, parsed_response,
                   analysis, results, requests_sent, retry_slept, inference_sent,
                   paced_since_search, last_request, error>>

\* line 251 and the call of line 253: the next organization, or the end of
\* the loop
NextOrganization ==
    /\ pc = "loop"
    /\ IF idx <= Len(org_list)
       THEN /\ pc' = "search_req1"
            /\ response' = NoResponse
            /\ first_status' = 0
            /\ search_results' = ResultList(<<>>)
            /\ requests_sent' = 0
            /\ retry_slept' = 0
       ELSE /\ pc' = "summary"
            /\ UNCHANGED <<response, first_status, search_results,
                           requests_sent, retry_slept>>
    /\ UNCHANGED <<brave_api_key, anthropic_api_key, org_list, idx, reply,
                   parsed_response, analysis, results, inference_sent,
                   paced_since_search, last_request, error>>

(***************************************************************************)
(* Search Client: search_organization.                                     *)
(***************************************************************************)
\* mutant of SearchRequest: every status other than 200 waits and retries
SearchRequestRetriesAnyError ==
    /\ pc = "search_req1"
    /\ requests_sent' = requests_sent + 1
    /\ last_request' = [kind |-> "search", org |-> idx]
    /\ paced_since_search' = 0
    /\ \/ /\ pc' = "search_finally"
          /\ UNCHANGED <<response, first_status>>
       \/ \E r \in SearchResponses :
            /\ response' = r
            /\ first_status' = r.status
            /\ pc' = IF r.status # StatusOK
                     THEN "search_sleep5" ELSE "search_handle"
    /\ UNCHANGED <<brave_api_key, anthropic_api_key, org_list, idx,
                   search_results, reply, parsed_response, analysis, results,
                   retry_slept, inference_sent, error>>

\* line 77: the first request; it raises or answers
SearchRequest ==
    /\ pc = "search_req1"
    /\ requests_sent' = requests_sent + 1
    /\ last_request' = [kind |-> "search", org |-> idx]
    /\ paced_since_search' = 0
    /\ \/ /\ pc' = "search_finally"
          /\ UNCHANGED <<response, first_status>>
       \/ \E r \in SearchResponses :
            /\ response' = r
            /\ first_status' = r.status
            /\ pc' = IF r.status = StatusRateLimited
                     THEN "search_sleep5" ELSE "search_handle"
    /\ UNCHANGED <<brave_api_key, anthropic_api_key, org_list, idx,
                   search_results, reply, parsed_response, analysis, results,
                   retry_slept, inference_sent, error>>

\* line 80
SearchRetryWait ==
    /\ pc = "search_sleep5"
    /\ retry_slept' = retry_slept + RetryWait
    /\ pc' = "search_req2"
    /\ UNCHANGED <<brave_api_key, anthropic_api_key, org_list, idx, response,
                   first_status, search_results, reply, parsed_response,
                   analysis, results, requests_sent, inference_sent,
                   paced_since_search, last_request, error>>

\* line 81: the one retry; it raises or answers
SearchRetry ==
    /\ pc = "search_req2"
    /\ requests_sent' = requests_sent + 1
    /\ last_request' = [kind |-> "search", org |-> idx]
    /\ paced_since_search' = 0
    /\ \/ /\ pc' = "search_finally"
          /\ UNCHANGED response
       \/ \E r \in SearchResponses :
            /\ response' = r
            /\ pc' = "search_handle"
    /\ UNCHANGED <<brave_api_key, anthropic_api_key, org_list, idx,
                   first_status, search_results, reply, parsed_response,
                   analysis, results, retry_slept, inference_sent, error>>

\* lines 82-93: the final response becomes the result list
SearchHandle ==
    /\ pc = "search_handle"
    /\ search_results' = SearchOutcome(response)
    /\ pc' = "search_finally"
    /\ UNCHANGED <<brave_api_key, anthropic_api_key, org_list, idx, response,
                   first_status, reply, parsed_response, analysis, results,
                   requests_sent, retry_slept, inference_sent,
                   paced_since_search, last_request, error>>

\* lines 96-98 and the call of line 254: the pacing sleep, the return, and
\* the entry of analyze_search_results
SearchFinally ==
    /\ pc = "search_finally"
    /\ paced_since_search' = paced_since_search + PacingWait
    /\ pc' = "analyze"
    /\ inference_sent' = 0
    /\ reply' = NoReply
    /\ parsed_response' = EmptyAnswer
    /\ UNCHANGED <<brave_api_key, anthropic_api_key, org_list, idx, response,
                   first_status, search_results, analysis, results,
                   requests_sent, retry_slept, last_request, error>>

(***************************************************************************)
(* Goal Extractor: analyze_search_results.                                 *)
(***************************************************************************)
\* the organization being processed
org ==
    org_list[idx]

\* an uncaught exception leaves analyze_decarbonization_goals
Crash(where) ==
    /\ pc' = "crashed"
    /\ error' = where

\* mutant of AnalyzeEntry: no short-circuit on an empty result list
AnalyzeEntryAlwaysAsks ==
    /\ pc = "analyze"
    /\ IF search_results.k # "list"
       THEN /\ Crash("analyze_search_results")
            /\ UNCHANGED analysis
       ELSE /\ pc' = "infer_req"
            /\ UNCHANGED <<analysis, error>>
    /\ UNCHANGED <<brave_api_key, anthropic_api_key, org_list, idx, response,
                   first_status, search_results, reply, parsed_response,
                   results, requests_sent, retry_slept, inference_sent,
                   paced_since_search, last_request>>

\* lines 108-123: the short-circuit on no results, else the context; a
\* truthy value that is not a list of objects raises while it is iterated
AnalyzeEntry ==
    /\ pc = "analyze"
    /\ IF ~ResultsTruthy(search_results)
       THEN /\ analysis' = NotFoundRecord(org)
            /\ pc' = "append"
            /\ UNCHANGED error
       ELSE IF search_results.k # "list"
       THEN /\ Crash("analyze_search_results")
            /\ UNCHANGED analysis
       ELSE /\ pc' = "infer_req"
            /\ UNCHANGED <<analysis, error>>
    /\ UNCHANGED <<brave_api_key, anthropic_api_key, org_list, idx, response,
                   first_status, search_results, reply, parsed_response,
                   results, requests_sent, retry_slept, inference_sent,
                   paced_since_search, last_request>>

\* lines 151-185: the one inference request and the parsing of its reply
InferenceRequest ==
    /\ pc = "infer_req"
    /\ inference_sent' = inference_sent + 1
    /\ last_request' = [kind |-> "inference", org |-> idx]
    /\ \E rep \in InferenceReplies :
        /\ reply' = rep
        /\ parsed_response' = InferenceOutcome(rep)
    /\ pc' = "fb_source_url"
    /\ UNCHANGED <<brave_api_key, anthropic_api_key, org_list, idx, response,
                   first_status, search_results, analysis, results,
                   requests_sent, retry_slept, paced_since_search, error>>

\* lines 188-193
FallbackSourceUrl ==
    /\ pc = "fb_source_url"
    /\ \E scan \in {IF Truthy(GetOrNone(parsed_response.source_url))
                     THEN NotFound
                     ELSE SourceUrlScan(org, search_results.v, 1)} :
           IF scan.out = "raised"
           THEN /\ Crash("analyze_search_results")
                /\ UNCHANGED parsed_response
           ELSE /\ pc' = "fb_target_date"
                /\ parsed_response' =
                       IF scan.out = "found"
                       THEN [parsed_response EXCEPT
                                !.source_url = JStr(scan.val)]
                       ELSE parsed_response
                /\ UNCHANGED error
    /\ UNCHANGED <<brave_api_key, anthropic_api_key, org_list, idx, response,
                   first_status, search_results, reply, analysis, results,
                   requests_sent, retry_slept, inference_sent,
                   paced_since_search, last_request>>

\* lines 196-203
FallbackTargetDate ==
    /\ pc = "fb_target_date"
    /\ \E scan \in {IF Truthy(GetOrNone(parsed_response.target_date))
                     THEN NotFound
                     ELSE TargetDateScan(org, search_results.v, 1)} :
           IF scan.out = "raised"
           THEN /\ Crash("analyze_search_results")
                /\ UNCHANGED parsed_response
           ELSE /\ pc' = "fb_description"
                /\ parsed_response' =
                       IF scan.out = "found"
                       THEN [parsed_response EXCEPT
                                !.target_date = JStr(scan.val)]
                       ELSE parsed_response
                /\ UNCHANGED error
    /\ UNCHANGED <<brave_api_key, anthropic_api_key, org_list, idx, response,
                   first_status, search_results, reply, analysis, results,
                   requests_sent, retry_slept, inference_sent,
                   paced_since_search, last_request>>

\* lines 206-212
FallbackDescription ==
    /\ pc = "fb_description"
    /\ \E scan \in {IF Truthy(GetOrNone(parsed_response.description))
                     THEN NotFound
                     ELSE DescriptionScan(org, search_results.v, 1)} :
           IF scan.out = "raised"
           THEN /\ Crash("analyze_search_results")
                /\ UNCHANGED parsed_response
           ELSE /\ pc' = "build_record"
                /\ parsed_response' =
                       IF scan.out = "found"
                       THEN [parsed_response EXCEPT
                                !.description = JStr(scan.val)]
                       ELSE parsed_response
                /\ UNCHANGED error
    /\ UNCHANGED <<brave_api_key, anthropic_api_key, org_list, idx, response,
                   first_status, search_results, reply, analysis, results,
                   requests_sent, retry_slept, inference_sent,
                   paced_since_search, last_request>>

\* lines 214-220
ReturnRecord ==
    /\ pc = "build_record"
    /\ analysis' = BuildRecord(org, parsed_response)
    /\ pc' = "append"
    /\ UNCHANGED <<brave_api_key, anthropic_api_key, org_list, idx, response,
                   first_status, search_results, reply, parsed_response,
                   results, requests_sent, retry_slept, inference_sent,
                   paced_since_search, last_request, error>>

(***************************************************************************)
(* Pipeline Driver, continued.                                             *)
(***************************************************************************)
\* line 255
AppendRecord ==
    /\ pc = "append"
    /\ results' = Append(results, analysis)
    /\ pc' = "driver_sleep"
    /\ UNCHANGED <<brave_api_key, anthropic_api_key, org_list, idx, response,
                   first_status, search_results, reply, parsed_response,
                   analysis, requests_sent, retry_slept, inference_sent,
                   paced_since_search, last_request, error>>

\* mutant of DriverSleep: the driver moves on without its pacing sleep
DriverNoSleep ==
    /\ pc = "driver_sleep"
    /\ idx' = idx + 1
    /\ pc' = "loop"
    /\ UNCHANGED <<brave_api_key, anthropic_api_key, org_list, response,
                   first_status, search_results, reply, parsed_response,
                   analysis, results, requests_sent, retry_slept,
                   inference_sent, paced_since_search, last_request, error>>

\* line 256, and the loop's step to the next organization
DriverSleep ==
    /\ pc = "driver_sleep"
    /\ paced_since_search' = paced_since_search + PacingWait
    /\ idx' = idx + 1
    /\ pc' = "loop"
    /\ UNCHANGED <<brave_api_key, anthropic_api_key, org_list, response,
                   first_status, search_results, reply, parsed_response,
                   analysis, results, requests_sent, retry_slept, inference_sent,
                   last_request, error>>

\* len(df)
total_orgs ==
    Len(results)

\* len(df[df['has_goal'].str.lower() == 'yes'])
orgs_with_goals ==
    Cardinality({i \in 1..Len(results) :
        /\ results[i].has_goal.k = "str"
        /\ Lower(results[i].has_goal.s) = StrYesLower})

\* lines 258-270: the table, the CSV file and the summary.  A table built
\* from no records has no has_goal column (KeyError, line 263), and the
\* percentage of line 270 divides by the number of rows.
Summary ==
    /\ pc = "summary"
    /\ IF results = <<>>
       THEN Crash("summary")
       ELSE IF total_orgs = 0
       THEN Crash("summary")
       ELSE /\ pc' = "done"
            /\ UNCHANGED error
    /\ UNCHANGED <<brave_api_key, anthropic_api_key, org_list, idx, response,
                   first_status, search_results, reply, parsed_response,
                   analysis, results, requests_sent, retry_slept, inference_sent,
                   paced_since_search, last_request>>

Next ==
    \/ CheckKeys
    \/ NextOrganization
    \/ SearchRequest
    \/ SearchRetryWait
    \/ SearchRetry
    \/ SearchHandle
    \/ SearchFinally
    \/ AnalyzeEntry
    \/ InferenceRequest
    \/ FallbackSourceUrl
    \/ FallbackTargetDate
    \/ FallbackDescription
    \/ ReturnRecord
    \/ AppendRecord
    \/ DriverSleep
    \/ Summary

Spec ==
    Init /\ [][Next]_vars

(***************************************************************************)
(* The fallback stage on its own: analyze_search_results just after the    *)
(* inference reply was parsed, for every organization, every result list   *)
(* of up to MaxResults catalogue entries and every answer of AnswerSpace.  *)
(***************************************************************************)
InitFallback ==
    /\ brave_api_key = TRUE
    /\ anthropic_api_key = TRUE
    /\ \E o \in OrgNames : org_list = <<o>>
    /\ idx = 1
    /\ pc = "fb_source_url"
    /\ \E rs \in SeqsOf(Catalogue, 1, MaxResults) :
        /\ search_results = ResultList(rs)
        /\ response = [status |-> StatusOK, body |-> Body("results_list", rs)]
    /\ first_status = StatusOK
    /\ parsed_response \in AnswerSpace
    /\ reply = InferenceReply("response", StatusOK,
                   InferenceBody("completion", <<<<Obj(parsed_response)>>>>))
    /\ analysis = NoRecord
    /\ results = <<>>
    /\ requests_sent = 1
    /\ retry_slept = 0
    /\ inference_sent = 1
    /\ paced_since_search = 1
    /\ last_request = [kind |-> "inference", org |-> 1]
    /\ error = "none"

NextFallback ==
    \/ FallbackSourceUrl
    \/ FallbackTargetDate
    \/ FallbackDescription
    \/ ReturnRecord

SpecFallback ==
    InitFallback /\ [][NextFallback]_vars

(***************************************************************************)
(* Properties of a whole run (specification Spec).                         *)
(***************************************************************************)
\* search_organization has returned and analyze_search_results is entered
SearchReturned ==
    pc = "analyze"

\* analyze_search_results has returned its record
AnalyzeReturned ==
    pc = "append"

\* C1: search_organization sleeps 5 time-units exactly when its first
\* response was a 429, and then sends exactly one more request; it never
\* sends more than two requests, a second 429 yields the empty list, and
\* 429 followed by 200 with one result returns that result.
C1_RetryOnceAfter429 ==
    /\ requests_sent <= 2
    /\ retry_slept \in {0, RetryWait}
    /\ (retry_slept # 0 => first_status = StatusRateLimited)
    /\ (pc = "search_req2" => retry_slept = RetryWait /\ requests_sent = 1)
    /\ (SearchReturned =>
          /\ (first_status = StatusRateLimited
                => retry_slept = RetryWait /\ requests_sent = 2)
          /\ (first_status # StatusRateLimited
                => retry_slept = 0 /\ requests_sent = 1)
          /\ (requests_sent = 2 /\ response.status = StatusRateLimited
                => search_results = ResultList(<<>>))
          /\ ((first_status = StatusRateLimited
               /\ response = [status |-> StatusOK,
                              body |-> Body("results_list", <<ResAcmePress>>)])
                => search_results = ResultList(<<ResAcmePress>>)))

\* C1 witness: 429, a 5-unit wait, one retry answered 200 with one result
C1_Witness ==
    /\ SearchReturned
    /\ first_status = StatusRateLimited
    /\ response.status = StatusOK
    /\ requests_sent = 2
    /\ retry_slept = RetryWait
    /\ search_results = ResultList(<<ResAcmePress>>)

\* C2: search_organization never raises and always returns a list, which
\* is empty unless the final status is 200 and the body parsed.
C2_AlwaysReturnsList ==
    /\ (pc \in {"search_req1", "search_sleep5", "search_req2",
                "search_handle", "search_finally"} => error = "none")
    /\ (SearchReturned =>
          /\ search_results.k = "list"
          /\ (search_results.v # <<>> =>
                /\ response.status = StatusOK
                /\ response.body.shape = "results_list"))

\* C3: with both credentials, a run ends with exactly one record per
\* organization, in input order, whatever the providers answered.
C3_EveryOrganizationProcessed ==
    (pc \in {"done", "crashed"} /\ brave_api_key /\ anthropic_api_key) =>
        /\ Len(results) = Len(org_list)
        /\ \A i \in 1..Len(results) : results[i].organization = org_list[i]

\* the inference outcomes that carry no usable answer: an exception, a
\* status other than 200, a body that is not JSON or has no text, a text
\* without a JSON object (JSON-free) and a text with several (malformed)
ReplyFailed(rep) ==
    \/ rep.kind = "exception"
    \/ rep.status # StatusOK
    \/ rep.body.shape \in {"not_json", "content_other", "neither"}
    \/ Cardinality({ij \in UNION {{<<i, j>> : j \in 1..Len(rep.body.texts[i])} :
                                      i \in 1..Len(rep.body.texts)} :
                        rep.body.texts[ij[1]][ij[2]].seg = "obj"}) # 1

\* the values a field can have when only the fallbacks filled it
FromFallbackOnly(rec, rs) ==
    /\ rec.has_goal = JStr(StrNotFound)
    /\ \/ rec.source_url = JNull
       \/ \E i \in 1..Len(rs) : rs[i].url = rec.source_url
    /\ \/ rec.target_date = JNull
       \/ \E i \in 1..Len(rs) :
            /\ rs[i].description.k = "str"
            /\ Contains(rs[i].description.s, rec.target_date.s)
    /\ \/ rec.description = JStr(<<>>)
       \/ \E i \in 1..Len(rs) :
            /\ rs[i].description.k = "str"
            /\ rec.description.s =
                   Truncate(Strip(rs[i].description.s), DescriptionLimit)

\* C4: analyze_search_results sends no inference request for an empty
\* result list and returns the fixed "Not Found" record; for a non-empty
\* list it sends exactly one, whatever the reply; after a failed reply the
\* structured answer is empty and only the fallbacks fill the record.
C4_OneInferenceRequest ==
    /\ inference_sent <= 1
    /\ (pc = "fb_source_url" /\ ReplyFailed(reply)
          => parsed_response = EmptyAnswer)
    /\ (AnalyzeReturned /\ search_results.k = "list" =>
          IF search_results.v = <<>>
          THEN /\ inference_sent = 0
               /\ analysis = [organization |-> org,
                              has_goal |-> JStr(StrNotFound),
                              target_date |-> JNull,
                              source_url |-> JNull,
                              description |-> JStr(<<>>)]
          ELSE /\ inference_sent = 1
               /\ (ReplyFailed(reply)
                     => FromFallbackOnly(analysis, search_results.v)))

\* C4 witness: one request that raised, and a record the fallbacks filled
C4_Witness ==
    /\ AnalyzeReturned
    /\ inference_sent = 1
    /\ reply.kind = "exception"
    /\ analysis.source_url = JStr(UrlAcmePress)
    /\ analysis.target_date = JStr(Str2035)

\* C7: search_organization has slept 1 time-unit when it returns, on every
\* path; the first search request of a later organization comes after two
\* 1-unit sleeps since the previous organization's last search request; and
\* the inference request of an organization follows its own search.
C7_Pacing ==
    /\ (SearchReturned => paced_since_search = PacingWait)
    /\ (pc = "search_req1" /\ idx > 1 =>
          /\ paced_since_search >= 2 * PacingWait
          /\ last_request.org = idx - 1)
    /\ (pc = "infer_req" =>
          last_request = [kind |-> "search", org |-> idx])
    /\ (pc \in {"append", "driver_sleep"} /\ last_request.kind # "none"
          => last_request.org = idx)

\* C7 witness: the second organization's search is about to be sent after
\* a first organization whose search found nothing
C7_Witness ==
    /\ pc = "search_req1"
    /\ idx = 2
    /\ paced_since_search = 2 * PacingWait
    /\ results = <<NotFoundRecord(org_list[1])>>

\* C8: with both credentials and an empty organization list the run does
\* not end in an exception.
C8_EmptyListNoCrash ==
    (brave_api_key /\ anthropic_api_key /\ org_list = <<>>)
        => pc # "crashed"

(***************************************************************************)
(* Properties of the fallback stage (specification SpecFallback).          *)
(***************************************************************************)
\* the structured answer as parsed from the reply, before any fallback
InitialAnswer ==
    InferenceOutcome(reply)

\* both organization-match checks of a result
Qualifies(org_name, r) ==
    /\ result_matches_org(org_name, r)
    /\ url_belongs_to_org(org_name, Get(r.url, JStr(<<>>)).s)

\* the description of a result contains one of the goal keywords
HasGoalKeyword(text) ==
    \/ Contains(Lower(text), KwDecarbon)
    \/ Contains(Lower(text), KwNetZero)

\* the least element of a non-empty set of positions
First(S) ==
    CHOOSE i \in S : \A j \in S : i <= j

\* C5: the has_goal of a returned record is never null or missing; it is
\* "Not Found" when the parsed answer has no has_goal or a null one, and
\* the fallbacks never touch it.
C5_HasGoalAlwaysPresent ==
    /\ (pc \in {"fb_target_date", "fb_description", "build_record"}
          => parsed_response.has_goal = InitialAnswer.has_goal)
    /\ (AnalyzeReturned =>
          /\ analysis.has_goal.k = "str"
          /\ (InitialAnswer.has_goal.k \in {"absent", "null"}
                => analysis.has_goal = JStr(StrNotFound)))

\* C6, as stated: without a source_url in the parsed answer the record's
\* source_url is the URL of the first result passing both checks, or null
\* if there is none; a non-empty source_url of the answer is kept.
C6_SourceUrlFirstQualifyingOrNull ==
    AnalyzeReturned =>
        LET given == GetOrNone(InitialAnswer.source_url)
            rs == search_results.v
            Q == {i \in 1..Len(rs) : Qualifies(org, rs[i])}
        IN  IF Truthy(given) THEN analysis.source_url = given
            ELSE IF Q = {} THEN analysis.source_url = JNull
            ELSE analysis.source_url = rs[First(Q)].url

\* C6, amended: as stated, except that when no result qualifies the record
\* keeps what the answer held: null if source_url was missing or null, the
\* empty string if it was the empty string.
C6_SourceUrlFirstQualifyingOrGiven ==
    AnalyzeReturned =>
        LET given == GetOrNone(InitialAnswer.source_url)
            rs == search_results.v
            Q == {i \in 1..Len(rs) : Qualifies(org, rs[i])}
        IN  IF Truthy(given) THEN analysis.source_url = given
            ELSE IF Q = {} THEN analysis.source_url = given
            ELSE /\ analysis.source_url = rs[First(Q)].url
                 /\ Qualifies(org, [rs[First(Q)] EXCEPT
                                       !.url = analysis.source_url])

\* C6 witness: the first result is third-party coverage, the second is the
\* organization's own page, and the answer had no source_url
C6_Witness ==
    /\ AnalyzeReturned
    /\ org = OrgAcme
    /\ search_results.v = <<ResNews, ResAcmePress>>
    /\ InitialAnswer.source_url = JAbsent
    /\ analysis.source_url = JStr(UrlAcmePress)

\* C9: without a target_date in the parsed answer the record's target_date
\* is the first year token 20XX of the description of the first result that
\* passes both checks and has such a token; "Acme Corp" with the single
\* result (net zero by 2035, https://acme.com/press) yields "2035" and that
\* URL.
C9_TargetDateFirstYearToken ==
    (AnalyzeReturned /\ ~Truthy(GetOrNone(InitialAnswer.target_date))) =>
        LET rs == search_results.v
            Q == {i \in 1..Len(rs) :
                    /\ Qualifies(org, rs[i])
                    /\ rs[i].description.k = "str"
                    /\ HasYear(rs[i].description.s)}
        IN  /\ IF Q = {}
               THEN analysis.target_date =
                        GetOrNone(InitialAnswer.target_date)
               ELSE LET desc == rs[First(Q)].description.s
                        year == analysis.target_date.s
                    IN  /\ analysis.target_date.k = "str"
                        /\ Len(year) = 4
                        /\ \E p \in 1..Len(desc) :
                             /\ YearAt(desc, p)
                             /\ SubSeq(desc, p, p + 3) = year
                             /\ \A m \in 1..(p - 1) : ~YearAt(desc, m)
            /\ (org = OrgAcme /\ rs = <<ResAcmePress>> =>
                  /\ analysis.target_date = JStr(Str2035)
                  /\ (~Truthy(GetOrNone(InitialAnswer.source_url))
                        => analysis.source_url = JStr(UrlAcmePress)))

\* C9 witness: the published example
C9_Witness ==
    /\ AnalyzeReturned
    /\ org = OrgAcme
    /\ search_results.v = <<ResAcmePress>>
    /\ InitialAnswer.target_date = JAbsent
    /\ InitialAnswer.source_url = JAbsent
    /\ analysis.target_date = JStr(Str2035)
    /\ analysis.source_url = JStr(UrlAcmePress)

\* the description was filled by the fallback
DescriptionFilled ==
    /\ AnalyzeReturned
    /\ ~Truthy(GetOrNone(InitialAnswer.description))
    /\ Truthy(analysis.description)

\* C10, as stated: a description filled by fallback itself contains
\* "decarbon" or "net zero" and is the stripped, truncated description of
\* a result passing both checks.
C10_StoredDescriptionHasKeyword ==
    DescriptionFilled =>
        /\ HasGoalKeyword(analysis.description.s)
        /\ \E i \in 1..Len(search_results.v) :
             /\ Qualifies(org, search_results.v[i])
             /\ analysis.description.s =
                    Truncate(Strip(search_results.v[i].description.s),
                             DescriptionLimit)

\* C10, amended: without a description in the parsed answer the record's
\* description is the stripped text, truncated to 250 characters, of the
\* first result that passes both checks and whose full description
\* contains "decarbon" or "net zero" (the stored text need not contain it);
\* whether a target_date was found plays no part.
C10_DescriptionFromKeywordResult ==
    (AnalyzeReturned /\ ~Truthy(GetOrNone(InitialAnswer.description))) =>
        LET rs == search_results.v
            Q == {i \in 1..Len(rs) :
                    /\ rs[i].description.k = "str"
                    /\ HasGoalKeyword(rs[i].description.s)
                    /\ Qualifies(org, rs[i])}
        IN  IF Q = {}
            THEN analysis.description =
                     Get(InitialAnswer.description, JStr(<<>>))
            ELSE /\ analysis.description =
                        JStr(Truncate(Strip(rs[First(Q)].description.s),
                                      DescriptionLimit))
                 /\ Len(analysis.description.s) <= DescriptionLimit

\* C10 witness: a description filled from a result whose description has
\* leading whitespace, while no target_date came from the answer
C10_Witness ==
    /\ DescriptionFilled
    /\ org = OrgVeolia
    /\ search_results.v = <<ResNews, ResVeolia>>
    /\ InitialAnswer.target_date = JAbsent
    /\ analysis.description = JStr(Strip(DescVeolia))
    /\ analysis.description # JStr(DescVeolia)

====
